---- MODULE Spec2Model ----
(***************************************************************************)
(* Model of simuvex/s_memory.py (SimMemory, the byte-addressable symbolic  *)
(* memory) over a copy-on-write BranchingDict.                             *)
(*                                                                         *)
(* Symbolic expressions are kept in a normal form, so that equality of two *)
(* model terms is semantic equality of the expressions they stand for:     *)
(*   Val(v, bits)   a concrete bit-vector                                  *)
(*   Sym(name)      a symbol, name = [k, id, a, n, size]                   *)
(*   [t = "ext"]    Extract(hi, lo, e) of a symbolic e                     *)
(*   [t = "cat"]    Concat of byte expressions                             *)
(***************************************************************************)
EXTENDS Integers, Sequences, FiniteSets, TLC

\* ---------------------------------------------------------------- bounds
MaxAddr == 1
MaxViews == 3
MaxSteps == 3
MaxAddrSteps == 2

Addrs == 0..MaxAddr

\* SimMemory.__init__: self.limit = 1024, bits=64
DefaultLimit == 1024
DefaultBits == 64

\* ----------------------------------------------------------- expressions
Pow2(n) == 2^n

Val(v, bits) == [t |-> "val", size |-> bits, v |-> v]

\* symexec.BitVec(name, size): the name carries what the format string carries
Sym(k, id, a, n, bits) == [t |-> "sym", size |-> bits, k |-> k, id |-> id, a |-> a, n |-> n]

\* an input symbol of the caller (a value handed to store)
InSym(nm, bits) == Sym("in", nm, 0, 0, bits)

\* symexec.Extract(hi, lo, e)
Extract(hi, lo, e) ==
    IF e.t = "val" THEN Val((e.v \div Pow2(lo)) % Pow2(hi - lo + 1), hi - lo + 1)
    ELSE IF lo = 0 /\ hi = e.size - 1 THEN e
    ELSE [t |-> "ext", size |-> hi - lo + 1, hi |-> hi, lo |-> lo, of |-> e]

RECURSIVE CatVal(_)
\* the value of a concatenation of concrete bytes, first byte most significant
CatVal(buff) ==
    IF Len(buff) = 0 THEN 0
    ELSE buff[1].v * Pow2(8 * (Len(buff) - 1)) + CatVal(Tail(buff))

\* buff is exactly the byte slices of one symbolic expression, in order
IsSlicesOf(buff) ==
    /\ buff[1].t = "ext"
    /\ \A i \in 1..Len(buff) :
          /\ buff[i].t = "ext"
          /\ buff[i].of = buff[1].of
          /\ buff[i].of.size = 8 * Len(buff)
          /\ buff[i].hi = 8 * Len(buff) - 8 * (i - 1) - 1
          /\ buff[i].lo = 8 * Len(buff) - 8 * i

\* symexec.Concat(*buff)
Concat(buff) ==
    IF \A i \in 1..Len(buff) : buff[i].t = "val" THEN Val(CatVal(buff), 8 * Len(buff))
    ELSE IF IsSlicesOf(buff) THEN buff[1].of
    ELSE [t |-> "cat", size |-> 8 * Len(buff), parts |-> buff]

\* ------------------------------------------------- BranchingDict (cooldict)
\* A store node: a delta over its parent; finalized once it has been branched.
Node(p, st, fin) == [parent |-> p, storage |-> st, finalized |-> fin]

EmptyMap == [a \in {} |-> Val(0, 8)]

RECURSIVE AncestryLine(_, _)
\* the nodes from n up to its root, nearest first
AncestryLine(nodes, n) ==
    IF n = 0 THEN <<>> ELSE <<n>> \o AncestryLine(nodes, nodes[n].parent)

SeqRange(s) == {s[i] : i \in 1..Len(s)}

RECURSIVE Keys(_, _)
\* BranchingDict.keys()
Keys(nodes, n) ==
    IF n = 0 THEN {} ELSE DOMAIN nodes[n].storage \cup Keys(nodes, nodes[n].parent)

RECURSIVE GetItem(_, _, _)
\* BranchingDict.__getitem__ for a key that is present
GetItem(nodes, n, a) ==
    IF a \in DOMAIN nodes[n].storage THEN nodes[n].storage[a]
    ELSE GetItem(nodes, nodes[n].parent, a)

\* BranchingDict.common_ancestor(other): 0 stands for None
CommonAncestor(nodes, n, o) ==
    LET ours == SeqRange(AncestryLine(nodes, n))
        theirs == AncestryLine(nodes, o)
        hits == {i \in 1..Len(theirs) : theirs[i] \in ours}
    IN IF hits = {} THEN 0
       ELSE theirs[CHOOSE i \in hits : \A j \in hits : i <= j]

RECURSIVE ChangesSince(_, _, _)
\* BranchingDict.changes_since(ancestor): the addresses written above ancestor
ChangesSince(nodes, n, anc) ==
    IF n = anc \/ n = 0 THEN {}
    ELSE DOMAIN nodes[n].storage \cup ChangesSince(nodes, nodes[n].parent, anc)

\* the program state the operations act on
Mem(nodes, views, ctr) == [nodes |-> nodes, views |-> views, ctr |-> ctr]

\* BranchingDict.__setitem__: a finalized node gets a child, which takes the write
SetItem(m, v, a, b) ==
    LET n == m.views[v].mem IN
    IF m.nodes[n].finalized
    THEN [m EXCEPT !.nodes = Append(@, Node(n, (a :> b), FALSE)),
                   !.views[v].mem = Len(m.nodes) + 1]
    ELSE [m EXCEPT !.nodes[n].storage = (a :> b) @@ @]

\* BranchingDict.branch(): finalize the node; the new dict shares it
Branch(m, v) ==
    [m EXCEPT !.nodes[m.views[v].mem].finalized = TRUE]

\* the address-to-byte mapping a view shows
Content(m, v) ==
    [a \in Keys(m.nodes, m.views[v].mem) |-> GetItem(m.nodes, m.views[v].mem, a)]

\* ------------------------------------------------------- address expressions
\* A plain integer address (type(dst) in (int, long))
IntAddr(a) == [int |-> TRUE, a |-> a]

\* A solver expression used as an address: sols is the set of values it can
\* take under the current constraints (empty: unsatisfiable)
AddrExpr(nm, symbolic, sols) == [int |-> FALSE, nm |-> nm, symbolic |-> symbolic, sols |-> sols]

is_symbolic(v) == v.symbolic
satisfiable(v) == v.sols # {}
is_unique(v) == Cardinality(v.sols) = 1
SolMin(v) == CHOOSE x \in v.sols : \A y \in v.sols : x <= y
SolMax(v) == CHOOSE x \in v.sols : \A y \in v.sols : x >= y

RECURSIVE Ascending(_)
\* the addresses of a set in the order the loops visit them
Ascending(S) ==
    IF S = {} THEN <<>>
    ELSE LET x == CHOOSE y \in S : \A z \in S : y <= z IN <<x>> \o Ascending(S \ {x})

RECURSIVE Perms(_)
\* every ordering of a finite set
Perms(S) ==
    IF S = {} THEN {<<>>}
    ELSE UNION {{<<x>> \o p : p \in Perms(S \ {x})} : x \in S}

\* What the solver may answer for v: any() is one satisfying value, any_n(n)
\* up to n of them in some order.  A call asks the solver at most one of the
\* two, so an oracle varies one answer and fixes the other.
Oracles(v, n) ==
    IF v.int \/ v.sols = {} THEN {[any |-> 0, any_n |-> <<>>]}
    ELSE LET k == IF Cardinality(v.sols) < n THEN Cardinality(v.sols) ELSE n
             lists == UNION {Perms(S) : S \in {T \in SUBSET v.sols : Cardinality(T) = k}}
         IN {[any |-> a, any_n |-> Ascending(v.sols)] : a \in v.sols}
            \cup {[any |-> SolMin(v), any_n |-> p] : p \in lists}

\* constraints
Eq(l, r) == [t |-> "eq", l |-> l, r |-> r]
And(args) == [t |-> "and", args |-> args]
Or(args) == [t |-> "or", args |-> args]

\* ------------------------------------------------------------- SimMemory
View(n, limit, bits, id) == [mem |-> n, limit |-> limit, bits |-> bits, id |-> id]

\* e evaluated once and handed to F (a local binding; it changes no value)
Bind(e, F(_)) == CHOOSE r \in {F(x) : x \in {e}} : TRUE

RECURSIVE read_loop_unrecorded(_, _, _, _, _)
\* the loop of read_from that does not write the bytes it creates
read_loop_unrecorded(m, v, addr, i, num_bytes) ==
    IF i >= num_bytes THEN [m |-> m, buff |-> <<>>]
    ELSE LET key == addr + i
             hit == key \in Keys(m.nodes, m.views[v].mem)
             b == IF hit THEN GetItem(m.nodes, m.views[v].mem, key)
                  ELSE Sym("mem", m.views[v].id, key, m.ctr.var_mem, 8)
         IN Bind(IF hit THEN m ELSE [m EXCEPT !.ctr.var_mem = @ + 1],
                 LAMBDA m1 :
                    Bind(read_loop_unrecorded(m1, v, addr, i + 1, num_bytes),
                         LAMBDA rest : [m |-> rest.m, buff |-> <<b>> \o rest.buff]))

RECURSIVE read_loop(_, _, _, _, _)
\* the loop of read_from from byte i on: the bytes read and the memory after
read_loop(m, v, addr, i, num_bytes) ==
    IF i >= num_bytes THEN [m |-> m, buff |-> <<>>]
    ELSE LET key == addr + i
             hit == key \in Keys(m.nodes, m.views[v].mem)
             b == IF hit THEN GetItem(m.nodes, m.views[v].mem, key)
                  ELSE Sym("mem", m.views[v].id, key, m.ctr.var_mem, 8)
         IN Bind(IF hit THEN m ELSE SetItem([m EXCEPT !.ctr.var_mem = @ + 1], v, key, b),
                 LAMBDA m1 :
                    Bind(read_loop(m1, v, addr, i + 1, num_bytes),
                         LAMBDA rest : [m |-> rest.m, buff |-> <<b>> \o rest.buff]))

\* read_from that concatenates the bytes last address first
read_from_reversed(m, v, addr, num_bytes) ==
    Bind(read_loop(m, v, addr, 0, num_bytes),
         LAMBDA r : [m |-> r.m,
                     ret |-> IF Len(r.buff) = 1 THEN r.buff[1]
                             ELSE Concat([i \in 1..Len(r.buff) |-> r.buff[Len(r.buff) + 1 - i]])])

read_from(m, v, addr, num_bytes) ==
    Bind(read_loop(m, v, addr, 0, num_bytes),
         LAMBDA r : [m |-> r.m, ret |-> IF Len(r.buff) = 1 THEN r.buff[1] ELSE Concat(r.buff)])

RECURSIVE write_loop_low_first(_, _, _, _, _)
\* the loop of write_to taking the low byte first
write_loop_low_first(m, v, addr, cnt, off) ==
    IF off >= cnt.size THEN m
    ELSE Bind(SetItem(m, v, addr + off \div 8, Extract(off + 7, off, cnt)),
              LAMBDA m1 : write_loop_low_first(m1, v, addr, cnt, off + 8))

RECURSIVE write_loop(_, _, _, _, _)
\* the loop of write_to from bit offset off on
write_loop(m, v, addr, cnt, off) ==
    IF off >= cnt.size THEN m
    ELSE LET target == addr + off \div 8
             new_content == Extract(cnt.size - off - 1, cnt.size - off - 8, cnt)
         IN Bind(SetItem(m, v, target, new_content),
                 LAMBDA m1 : write_loop(m1, v, addr, cnt, off + 8))

write_to(m, v, addr, cnt) == write_loop(m, v, addr, cnt, 0)

RECURSIVE strategy_loop_inclusive(_, _, _, _)
\* the for loop of concretize_addr with a range equal to the limit let through
strategy_loop_inclusive(limit, v, strategies, o) ==
    IF strategies = <<>> THEN [err |-> "Unable to concretize address with the provided strategies.", addrs |-> <<>>]
    ELSE LET s == Head(strategies) IN
         IF s = "symbolic" /\ SolMax(v) - SolMin(v) <= limit THEN [err |-> "", addrs |-> o.any_n]
         ELSE IF s = "any" THEN [err |-> "", addrs |-> <<o.any>>]
         ELSE strategy_loop_inclusive(limit, v, Tail(strategies), o)

RECURSIVE strategy_loop(_, _, _, _)
\* the for loop of concretize_addr over the remaining strategies
strategy_loop(limit, v, strategies, o) ==
    IF strategies = <<>> THEN [err |-> "Unable to concretize address with the provided strategies.", addrs |-> <<>>]
    ELSE LET s == Head(strategies) IN
         IF s = "symbolic" /\ SolMax(v) - SolMin(v) < limit THEN [err |-> "", addrs |-> o.any_n]
         ELSE IF s = "any" THEN [err |-> "", addrs |-> <<o.any>>]
         ELSE strategy_loop(limit, v, Tail(strategies), o)

\* concretize_addr without the satisfiability test
concretize_addr_unchecked(limit, v, strategies, o) ==
    IF is_unique(v) THEN [err |-> "", addrs |-> <<o.any>>]
    ELSE strategy_loop(limit, v, strategies, o)

concretize_addr(limit, v, strategies, o) ==
    IF is_symbolic(v) /\ ~satisfiable(v)
    THEN [err |-> "Trying to concretize with unsat constraints.", addrs |-> <<>>]
    ELSE IF is_unique(v) THEN [err |-> "", addrs |-> <<o.any>>]
    ELSE strategy_loop(limit, v, strategies, o)

concretize_write_addr(limit, dst, o) == concretize_addr(limit, dst, <<"free", "writeable", "any">>, o)

concretize_read_addr(limit, dst, o) == concretize_addr(limit, dst, <<"symbolic", "any">>, o)

\* __contains__ without the try around concretize_addr
contains_raising(m, v, dst, o) ==
    IF dst.int THEN [ret |-> dst.a \in Keys(m.nodes, m.views[v].mem), err |-> ""]
    ELSE IF is_symbolic(dst)
    THEN Bind(concretize_addr(m.views[v].limit, dst, <<"allocated">>, o),
              LAMBDA c :
                 IF c.err # "" THEN [ret |-> FALSE, err |-> c.err]
                 ELSE [ret |-> c.addrs[1] \in Keys(m.nodes, m.views[v].mem), err |-> ""])
    ELSE [ret |-> o.any \in Keys(m.nodes, m.views[v].mem), err |-> ""]

\* __contains__(dst): what it returns and the error raised
contains(m, v, dst, o) ==
    IF dst.int THEN [ret |-> dst.a \in Keys(m.nodes, m.views[v].mem), err |-> ""]
    ELSE IF is_symbolic(dst)
    THEN Bind(concretize_addr(m.views[v].limit, dst, <<"allocated">>, o),
              LAMBDA c :
                 IF c.err # "" THEN [ret |-> FALSE, err |-> ""]
                 ELSE [ret |-> c.addrs[1] \in Keys(m.nodes, m.views[v].mem), err |-> ""])
    ELSE [ret |-> o.any \in Keys(m.nodes, m.views[v].mem), err |-> ""]

\* store that pins an ambiguous dst to its least value wherever it wrote
store_pins_least(m, v, dst, cnt, o) ==
    IF dst.int THEN [m |-> write_to(m, v, dst.a, cnt), addr |-> dst.a, cons |-> <<>>, err |-> ""]
    ELSE IF is_unique(dst)
    THEN [m |-> write_to(m, v, o.any, cnt), addr |-> o.any, cons |-> <<>>, err |-> ""]
    ELSE Bind(concretize_write_addr(m.views[v].limit, dst, o),
              LAMBDA c :
                 IF c.err # "" THEN [m |-> m, addr |-> 0, cons |-> <<>>, err |-> c.err]
                 ELSE [m |-> write_to(m, v, c.addrs[1], cnt), addr |-> c.addrs[1],
                       cons |-> <<Eq(dst.nm, SolMin(dst))>>, err |-> ""])

\* store(dst, cnt): the memory after, the local addr, the constraints returned,
\* the error raised
store(m, v, dst, cnt, o) ==
    IF dst.int THEN [m |-> write_to(m, v, dst.a, cnt), addr |-> dst.a, cons |-> <<>>, err |-> ""]
    ELSE IF is_unique(dst)
    THEN [m |-> write_to(m, v, o.any, cnt), addr |-> o.any, cons |-> <<>>, err |-> ""]
    ELSE Bind(concretize_write_addr(m.views[v].limit, dst, o),
              LAMBDA c :
                 IF c.err # "" THEN [m |-> m, addr |-> 0, cons |-> <<>>, err |-> c.err]
                 ELSE [m |-> write_to(m, v, c.addrs[1], cnt), addr |-> c.addrs[1],
                       cons |-> <<Eq(dst.nm, c.addrs[1])>>, err |-> ""])

RECURSIVE load_alts_first(_, _, _, _, _, _, _)
\* the list comprehension of load reading the first candidate every time
load_alts_first(m, v, dst, size, sym, addrs, i) ==
    IF i > Len(addrs) THEN [m |-> m, args |-> <<>>]
    ELSE Bind(read_from(m, v, addrs[1], size),
              LAMBDA r :
                 Bind(load_alts_first(r.m, v, dst, size, sym, addrs, i + 1),
                      LAMBDA rest :
                         [m |-> rest.m,
                          args |-> <<And(<<Eq(sym, r.ret), Eq(dst.nm, addrs[i])>>)>> \o rest.args]))

RECURSIVE load_alts(_, _, _, _, _, _, _)
\* the list comprehension of load: one And per candidate, reading as it goes
load_alts(m, v, dst, size, sym, addrs, i) ==
    IF i > Len(addrs) THEN [m |-> m, args |-> <<>>]
    ELSE Bind(read_from(m, v, addrs[i], size),
              LAMBDA r :
                 Bind(load_alts(r.m, v, dst, size, sym, addrs, i + 1),
                      LAMBDA rest :
                         [m |-> rest.m,
                          args |-> <<And(<<Eq(sym, r.ret), Eq(dst.nm, addrs[i])>>)>> \o rest.args]))

\* what load returns after a read_from
Loaded(r, addrs, cons) == [m |-> r.m, ret |-> r.ret, addrs |-> addrs, cons |-> cons, err |-> ""]

\* load(dst, size): the memory after, the value and constraints returned, the
\* local addrs, the error raised
load(m, v, dst, size, o) ==
    IF dst.int THEN Bind(read_from(m, v, dst.a, size), LAMBDA r : Loaded(r, <<>>, <<>>))
    ELSE IF is_unique(dst) THEN Bind(read_from(m, v, o.any, size), LAMBDA r : Loaded(r, <<>>, <<>>))
    ELSE Bind(concretize_read_addr(m.views[v].limit, dst, o),
              LAMBDA c :
                 IF c.err # ""
                 THEN [m |-> m, ret |-> Val(0, 8), addrs |-> <<>>, cons |-> <<>>, err |-> c.err]
                 ELSE IF Len(c.addrs) = 1
                 THEN Bind(read_from(m, v, c.addrs[1], size),
                           LAMBDA r : Loaded(r, c.addrs, <<Eq(dst.nm, c.addrs[1])>>))
                 ELSE LET sym == Sym("addr", m.views[v].id, 0, m.ctr.addr_mem, size * 8) IN
                      Bind([m EXCEPT !.ctr.addr_mem = @ + 1],
                           LAMBDA m1 :
                              Bind(load_alts(m1, v, dst, size, sym, c.addrs, 1),
                                   LAMBDA e : [m |-> e.m, ret |-> sym, addrs |-> c.addrs,
                                               cons |-> <<Or(e.args)>>, err |-> ""])))

\* copy() that hands the new view the same dict instead of a branch of it
copy_alias(m, v) ==
    [m EXCEPT !.views = Append(@, View(m.views[v].mem, DefaultLimit, m.views[v].bits, m.views[v].id))]

\* copy() that hands the new view a dict of its own instead of a branch
copy_unshared(m, v) ==
    [m EXCEPT !.nodes = Append(@, Node(0, EmptyMap, FALSE)),
              !.views = Append(@, View(Len(m.nodes) + 1, DefaultLimit, m.views[v].bits, m.views[v].id))]

\* copy(): a new view on the branched store; the constructor sets its limit
copy(m, v) ==
    Bind(Branch(m, v),
         LAMBDA b :
            [b EXCEPT !.views = Append(@, View(b.views[v].mem, DefaultLimit, b.views[v].bits, b.views[v].id))])

\* changed_bytes that leaves their_changes out of the union
changed_bytes_ours(m, v, other) ==
    LET n == m.views[v].mem
        common_ancestor == CommonAncestor(m.nodes, n, m.views[other].mem)
    IN IF common_ancestor = 0 THEN Keys(m.nodes, n)
       ELSE ChangesSince(m.nodes, n, common_ancestor)

\* changed_bytes whose fallback keeps only the keys whose bytes differ
changed_bytes_differing(m, v, other) ==
    LET n == m.views[v].mem
        on == m.views[other].mem
        common_ancestor == CommonAncestor(m.nodes, n, on)
        both == Keys(m.nodes, n) \cap Keys(m.nodes, on)
    IN IF common_ancestor = 0
       THEN (Keys(m.nodes, n) \cup Keys(m.nodes, on))
                \ {a \in both : GetItem(m.nodes, n, a) = GetItem(m.nodes, on, a)}
       ELSE ChangesSince(m.nodes, n, common_ancestor) \cup ChangesSince(m.nodes, on, common_ancestor)

\* changed_bytes(other)
changed_bytes(m, v, other) ==
    LET n == m.views[v].mem
        on == m.views[other].mem
        common_ancestor == CommonAncestor(m.nodes, n, on)
        our_changes == IF common_ancestor = 0 THEN Keys(m.nodes, n)
                       ELSE ChangesSince(m.nodes, n, common_ancestor)
        their_changes == IF common_ancestor = 0 THEN Keys(m.nodes, on)
                         ELSE ChangesSince(m.nodes, on, common_ancestor)
    IN our_changes \cup their_changes

NoOracle == [any |-> 0, any_n |-> <<>>]

\* unconstrain_byte that names every byte alike and draws no counter value
unconstrain_byte_same_name(m, v, addr) ==
    store(m, v, IntAddr(addr), Sym("unconstrain", m.views[v].id, 0, m.ctr.addr_mem, 8), NoOracle).m

\* unconstrain_byte(addr)
unconstrain_byte(m, v, addr) ==
    LET unconstrained_byte == Sym("unconstrain", m.views[v].id, addr, m.ctr.addr_mem, 8) IN
    Bind([m EXCEPT !.ctr.addr_mem = @ + 1],
         LAMBDA m1 : store(m1, v, IntAddr(addr), unconstrained_byte, NoOracle).m)

RECURSIVE unconstrain_loop(_, _, _)
\* the loop of unconstrain_differences over the addresses still to do
unconstrain_loop(m, v, bs) ==
    IF bs = <<>> THEN m
    ELSE Bind(unconstrain_byte(m, v, Head(bs)), LAMBDA m1 : unconstrain_loop(m1, v, Tail(bs)))

\* unconstrain_differences(other): returns nothing
unconstrain_differences(m, v, other) ==
    unconstrain_loop(m, v, Ascending(changed_bytes(m, v, other)))

RECURSIVE load_others(_, _, _, _)
\* alternatives.append(o.load(addr, 1)[0]) for o in others, from the i-th on
load_others(m, others, addr, i) ==
    IF i > Len(others) THEN [m |-> m, alts |-> <<>>]
    ELSE Bind(load(m, others[i], IntAddr(addr), 1, NoOracle),
              LAMBDA r :
                 Bind(load_others(r.m, others, addr, i + 1),
                      LAMBDA rest : [m |-> rest.m, alts |-> <<r.ret>> \o rest.alts]))

Min(a, b) == IF a < b THEN a ELSE b

\* the zip pairing the alternatives with the flag values in reverse
and_constraints_reversed(flag, merged_val, alternatives, flag_values) ==
    [i \in 1..Min(Len(alternatives), Len(flag_values)) |->
        And(<<Eq(flag, flag_values[Min(Len(alternatives), Len(flag_values)) + 1 - i]),
              Eq(merged_val, alternatives[i])>>)]

\* zip(alternatives, flag_values) stops at the shorter list
and_constraints(flag, merged_val, alternatives, flag_values) ==
    [i \in 1..Min(Len(alternatives), Len(flag_values)) |->
        And(<<Eq(flag, flag_values[i]), Eq(merged_val, alternatives[i])>>)]

\* one pass of the loop of merge that stores the merged byte in the first of
\* the others as well
merge_byte_into_others(m, v, others, flag, flag_values, addr) ==
    Bind(load(m, v, IntAddr(addr), 1, NoOracle),
         LAMBDA mine :
            Bind(load_others(mine.m, others, addr, 1),
                 LAMBDA theirs :
                    LET alternatives == <<mine.ret>> \o theirs.alts
                        merged_val == Sym("merge", m.views[v].id, addr, theirs.m.ctr.merge_mem, 8)
                    IN Bind([theirs.m EXCEPT !.ctr.merge_mem = @ + 1],
                            LAMBDA m1 :
                               [m |-> store(store(m1, v, IntAddr(addr), merged_val, NoOracle).m,
                                            others[1], IntAddr(addr), merged_val, NoOracle).m,
                                con |-> Or(and_constraints(flag, merged_val, alternatives, flag_values))])))

\* one pass of the loop of merge: the memory after and the constraint appended
merge_byte(m, v, others, flag, flag_values, addr) ==
    Bind(load(m, v, IntAddr(addr), 1, NoOracle),
         LAMBDA mine :
            Bind(load_others(mine.m, others, addr, 1),
                 LAMBDA theirs :
                    LET alternatives == <<mine.ret>> \o theirs.alts
                        merged_val == Sym("merge", m.views[v].id, addr, theirs.m.ctr.merge_mem, 8)
                    IN Bind([theirs.m EXCEPT !.ctr.merge_mem = @ + 1],
                            LAMBDA m1 :
                               [m |-> store(m1, v, IntAddr(addr), merged_val, NoOracle).m,
                                con |-> Or(and_constraints(flag, merged_val, alternatives, flag_values))])))

RECURSIVE merge_loop(_, _, _, _, _, _)
\* the loop of merge over the changed addresses still to do
merge_loop(m, v, others, flag, flag_values, todo) ==
    IF todo = <<>> THEN [m |-> m, cons |-> <<>>]
    ELSE Bind(merge_byte(m, v, others, flag, flag_values, Head(todo)),
              LAMBDA one :
                 Bind(merge_loop(one.m, v, others, flag, flag_values, Tail(todo)),
                      LAMBDA rest : [m |-> rest.m, cons |-> <<one.con>> \o rest.cons]))

\* merge(others, flag, flag_values): the memory after and the constraints returned
merge(m, v, others, flag, flag_values) ==
    LET changed == UNION {changed_bytes(m, v, others[i]) : i \in 1..Len(others)}
    IN merge_loop(m, v, others, flag, flag_values, Ascending(changed))

\* SimMemory(backer, bits, memory_id): a view on a store of its own
construct(m, backer, bits, id) ==
    [m EXCEPT !.nodes = Append(@, Node(0, backer, FALSE)),
              !.views = Append(@, View(Len(m.nodes) + 1, DefaultLimit, bits, id))]

\* ----------------------------------------------------------------- Cacher
HexChars == <<"0", "1", "2", "3", "4", "5", "6", "7", "8", "9", "a", "b", "c", "d", "e", "f">>

RECURSIVE HexDigits(_)
HexDigits(n) == IF n < 16 THEN <<HexChars[n + 1]>> ELSE HexDigits(n \div 16) \o <<HexChars[(n % 16) + 1]>>

\* hex(n): a long prints with a trailing L
hex(n, long) == <<"0x">> \o HexDigits(n) \o (IF long THEN <<"L">> ELSE <<>>)

\* s[:-1]
DropLast(s) == SubSeq(s, 1, Len(s) - 1)

\* a state of a stash: its address (an int or a long), the project it
\* refers to (0: None) and whether its history was trimmed
SimState(addr, long, project) == [addr |-> addr, long |-> long, project |-> project, trimmed |-> FALSE]

\* the keys a cache_file format string may use
CacheKeys == {"name", "binhash", "addr"}

\* the part of a file name left for the address: absent, or still to fill in
NoAddrPart == <<>>

AddrPart == <<"%(addr)s">>

\* a file name: directory, binary name, binary hash and address part
Path(dir, name, binhash, addr) == [dir |-> dir, name |-> name, binhash |-> binhash, addr |-> addr]

\* self._cache_file % {'addr': a}
FormatAddr(path, a) == IF path.addr = AddrPart THEN [path EXCEPT !.addr = a] ELSE path

\* the binary under analysis: project.filename and the md5 of its content
Binary == [basename |-> "bin", md5 |-> "h"]

\* Cacher(when, dump_cache, load_cache, cache_file): when is the set of
\* addresses the dump condition holds at, cache_file None or the set of keys
\* of a format string
Cacher(when, dump_cache, load_cache, cache_file) ==
    [when |-> when, dump_cache |-> dump_cache, load_cache |-> load_cache,
     cache_file |-> cache_file, project |-> 0]

NoneFile == [none |-> TRUE]

Template(keys) == [none |-> FALSE, keys |-> keys]

\* self._dump_cond(s)
dump_cond(c, s) == s.addr \in c.when

\* os.path.exists
exists(fs, path) == path \in DOMAIN fs

\* what a file holds: the stash pickled into it and whether the pickle is whole
Pickled(data, complete) == [data |-> data, complete |-> complete]

\* open(path, 'wb'): the file exists and is empty
open_wb(fs, path) == [q \in DOMAIN fs \cup {path} |-> IF q = path THEN Pickled(<<>>, FALSE) ELSE fs[q]]

WriteFile(fs, path, content) == [fs EXCEPT ![path] = content]

\* for s in stash: s.project = p
SetProject(stash, p) == [i \in 1..Len(stash) |-> [stash[i] EXCEPT !.project = p]]

\* _load_stash(f, simgr): pickle.load fails on a file that holds no whole pickle
load_stash(content, g) ==
    IF ~content.complete THEN [g |-> g, err |-> "EOFError"]
    ELSE [g |-> [g EXCEPT !.stashes.active = SetProject(content.data, g.project)], err |-> ""]

\* _dump_stash that restores the project references only after a dump that
\* went through
dump_stash_no_finally(fs, path, g, stash, lg, outcome) ==
    LET detached == [i \in 1..Len(g.stashes[stash]) |->
                        [g.stashes[stash][i] EXCEPT !.project = 0, !.trimmed = TRUE]]
    IN IF outcome = "RuntimeError"
       THEN [fs |-> fs, g |-> [g EXCEPT !.stashes[stash] = detached], log |-> Append(lg, "Unable to cache")]
       ELSE [fs |-> WriteFile(fs, path, Pickled(detached, TRUE)),
             g |-> [g EXCEPT !.stashes[stash] = SetProject(detached, g.project)], log |-> lg]

\* _dump_stash(f, simgr, stash): outcome is what pickle.dump does
dump_stash(fs, path, g, stash, lg, outcome) ==
    LET detached == [i \in 1..Len(g.stashes[stash]) |->
                        [g.stashes[stash][i] EXCEPT !.project = 0, !.trimmed = TRUE]]
        g1 == [g EXCEPT !.stashes[stash] = SetProject(detached, g.project)]
    IN IF outcome = "RuntimeError"
       THEN [fs |-> fs, g |-> g1, log |-> Append(lg, "Unable to cache")]
       ELSE [fs |-> WriteFile(fs, path, Pickled(detached, TRUE)), g |-> g1, log |-> lg]

\* setup(simgr): the cacher, the manager and the log after, the error raised
setup(c, fs, g, lg) ==
    LET c1 == [c EXCEPT !.project = g.project]
    IN IF ~c1.cache_file.none /\ ~(c1.cache_file.keys \subseteq CacheKeys)
       THEN [c |-> c1, g |-> g, err |-> "KeyError",
             log |-> Append(lg, "Only the following cache keys are accepted")]
       ELSE LET path == IF c1.cache_file.none
                        THEN Path("/tmp", Binary.basename, Binary.md5, NoAddrPart)
                        ELSE Path("",
                                  IF "name" \in c1.cache_file.keys THEN Binary.basename ELSE "",
                                  IF "binhash" \in c1.cache_file.keys THEN Binary.md5 ELSE "",
                                  IF "addr" \in c1.cache_file.keys THEN AddrPart ELSE NoAddrPart)
                c2 == [c1 EXCEPT !.cache_file = path]
            IN IF c2.load_cache /\ exists(fs, path)
               THEN Bind(load_stash(fs[path], g),
                         LAMBDA r : [c |-> c2, g |-> r.g, err |-> r.err, log |-> Append(lg, "Loading")])
               ELSE [c |-> c2, g |-> g, err |-> "", log |-> lg]

RECURSIVE step_loop_overwriting(_, _, _, _, _, _, _)
\* the for loop of step without the test for an existing file
step_loop_overwriting(c, fs, g, lg, stash, i, outcome) ==
    IF i > Len(g.stashes[stash]) THEN [c |-> c, fs |-> fs, g |-> g, log |-> lg]
    ELSE LET s == g.stashes[stash][i] IN
         IF c.dump_cache /\ dump_cond(c, s)
         THEN Bind([c EXCEPT !.cache_file = FormatAddr(@, DropLast(hex(s.addr, s.long)))],
                   LAMBDA c1 :
                      Bind(dump_stash(open_wb(fs, c1.cache_file), c1.cache_file, g, stash,
                                      Append(lg, "Caching"), outcome),
                           LAMBDA d : step_loop_overwriting(c1, d.fs, d.g, d.log, stash, i + 1, outcome)))
         ELSE step_loop_overwriting(c, fs, g, lg, stash, i + 1, outcome)

RECURSIVE step_loop(_, _, _, _, _, _, _)
\* the for loop of step from the i-th state of the stash on
step_loop(c, fs, g, lg, stash, i, outcome) ==
    IF i > Len(g.stashes[stash]) THEN [c |-> c, fs |-> fs, g |-> g, log |-> lg]
    ELSE LET s == g.stashes[stash][i] IN
         IF c.dump_cache /\ dump_cond(c, s)
         THEN Bind([c EXCEPT !.cache_file = FormatAddr(@, DropLast(hex(s.addr, s.long)))],
                   LAMBDA c1 :
                      IF exists(fs, c1.cache_file)
                      THEN step_loop(c1, fs, g, lg, stash, i + 1, outcome)
                      ELSE Bind(dump_stash(open_wb(fs, c1.cache_file), c1.cache_file, g, stash,
                                           Append(lg, "Caching"), outcome),
                                LAMBDA d : step_loop(c1, d.fs, d.g, d.log, stash, i + 1, outcome)))
         ELSE step_loop(c, fs, g, lg, stash, i + 1, outcome)

\* simgr.step(stash=stash): the states move on to next
simgr_step(g, stash, next) ==
    [g EXCEPT !.stashes[stash] = SetProject(next, g.project), !.stepped = @ + 1]

\* step(simgr, stash)
step(c, fs, g, lg, stash, outcome, next) ==
    Bind(step_loop(c, fs, g, lg, stash, 1, outcome),
         LAMBDA r : [c |-> r.c, fs |-> r.fs, g |-> simgr_step(r.g, stash, next), log |-> r.log,
                     dumped |-> r.g])

\* ------------------------------------------------------------------ state
VARIABLES
    nodes,   \* the store nodes of every BranchingDict, by index
    views,   \* the SimMemory objects, by index
    ctr,     \* var_mem_counter, addr_mem_counter, merge_mem_counter
    last,    \* the call made last: its arguments and what it returned
    pre,     \* the memory before that call
    born,    \* per view: how it was made and what was done to it since
    steps,   \* calls made so far
    config,  \* the arguments the script constructs its Cacher with
    cacher,  \* the Cacher of the current run
    files,   \* the file system: what every existing file holds
    simgr,   \* the SimulationManager of the current run
    log,     \* what was logged
    prior    \* cacher, files, simgr and log before the call made last

vars == <<nodes, views, ctr, last, pre, born, steps, config, cacher, files, simgr, log, prior>>

memvars == <<nodes, views, ctr, pre, born>>

cachevars == <<config, cacher, files, simgr, log, prior>>

Cur == Mem(nodes, views, ctr)

Views == 1..Len(views)

\* ----------------------------------------------------------------- inputs
\* initial backing mappings handed to the constructor
Backers == {EmptyMap, (0 :> Val(52, 8)), (0 :> Val(52, 8)) @@ (1 :> InSym("k", 8))}

\* (bits, memory_id) pairs handed to the constructor
Segments == {<<DefaultBits, "mem">>, <<32, "reg">>}

\* values stored: 0x12, 0x1234, a 16-bit and an 8-bit symbol
Cnts == {Val(18, 8), Val(4660, 16), InSym("X", 16), InSym("b", 8)}

ByteCnts == {c \in Cnts : c.size = 8}

\* values stored while forking: one concrete byte, one two-byte symbol
ForkCnts == {Val(18, 8), InSym("X", 16)}

Sizes == {1, 2}

\* an address far enough from Addrs that max - min reaches the limit
FarAddr == DefaultLimit

IntDsts == {IntAddr(a) : a \in Addrs}

\* unique-valued expressions: a symbolic one and a concrete one
UniqueDsts == {AddrExpr("u", TRUE, {0}), AddrExpr("c", FALSE, {1})}

AmbiguousDsts == {AddrExpr("sel", TRUE, S) : S \in {{}, {0, 1}, {1, FarAddr}, {0, 1, FarAddr}}}

\* limits an owner gives a view
Limits == {1, 2, DefaultLimit}

\* the strategy lists handed to concretize_addr: those of reads, of writes and
\* of __contains__, a list of stubs only and "symbolic" among stubs
StrategyLists ==
    {<<"symbolic", "any">>, <<"free", "writeable", "any">>, <<"allocated">>,
     <<"free", "writeable", "executable", "allocated">>, <<"free", "symbolic", "executable">>}

\* the flag_values lists handed to merge
FlagLists == {<<0, 1>>, <<0, 1, 2>>, <<0>>, <<0, 0>>}

\* the others lists handed to merge by view v: one or two other views
OthersOf(v) ==
    {<<o>> : o \in Views \ {v}}
    \cup {os \in (Views \ {v}) \X (Views \ {v}) : os[1] < os[2]}

\* the addresses the dump condition is given
Whens == {{16}, {16, 17}}

\* format strings: none, one with every key, one with a key not accepted
CacheFiles == {NoneFile, Template(CacheKeys), Template({"name", "pid"})}

\* the stashes a run starts with and steps to
Stashes ==
    {<<>>, <<SimState(16, TRUE, 0), SimState(17, TRUE, 0)>>, <<SimState(32, FALSE, 0)>>}

\* the cache files left by earlier runs
OldFiles ==
    {<<>>,
     Path("/tmp", Binary.basename, Binary.md5, NoAddrPart) :> Pickled(<<SimState(32, FALSE, 0)>>, TRUE),
     Path("", Binary.basename, Binary.md5, <<"0x", "1", "0">>) :> Pickled(<<SimState(16, TRUE, 0)>>, TRUE)}

\* ------------------------------------------------------------ bookkeeping
Call(op, v, args, ret, cons, err) ==
    [op |-> op, v |-> v, args |-> args, ret |-> ret, cons |-> cons, err |-> err]

NoArgs == [none |-> TRUE]

Born(p, c0) == [parent |-> p, content0 |-> c0, sc |-> {}, sp |-> {}, cm |-> FALSE, pm |-> FALSE]

\* the addresses view x gained in going from m0 to m1 other than by the stores S
Materialized(m0, m1, x, S) ==
    Keys(m1.nodes, m1.views[x].mem) \ (Keys(m0.nodes, m0.views[x].mem) \cup S) # {}

\* born after a call that took m0 to m1 and stored to the addresses S through v
Track(m0, m1, v, S) ==
    [c \in DOMAIN born |->
        LET st(x) == IF x = v THEN S ELSE {}
            p == born[c].parent
        IN [born[c] EXCEPT
               !.sc = @ \cup st(c),
               !.cm = @ \/ Materialized(m0, m1, c, st(c)),
               !.sp = IF p = 0 THEN @ ELSE @ \cup st(p),
               !.pm = IF p = 0 THEN @ ELSE @ \/ Materialized(m0, m1, p, st(p))]]

\* no Cacher in use
NoCacher ==
    /\ config = Cacher({}, TRUE, TRUE, NoneFile)
    /\ cacher = config
    /\ files = <<>>
    /\ simgr = [project |-> 0, stashes |-> [active |-> <<>>], stepped |-> 0]
    /\ log = <<>>
    /\ prior = [cacher |-> cacher, files |-> files, simgr |-> simgr, log |-> log]

Commit(m1, call, b) ==
    /\ UNCHANGED cachevars
    /\ nodes' = m1.nodes
    /\ views' = m1.views
    /\ ctr' = m1.ctr
    /\ last' = call
    /\ pre' = Cur
    /\ born' = b
    /\ steps' = steps + 1

\* ---------------------------------------------------------------- actions
Init ==
    \E b \in Backers :
        /\ nodes = <<Node(0, b, FALSE)>>
        /\ views = <<View(1, DefaultLimit, DefaultBits, "mem")>>
        /\ ctr = [var_mem |-> 0, addr_mem |-> 0, merge_mem |-> 0]
        /\ last = Call("init", 1, NoArgs, Val(0, 8), <<>>, "")
        /\ pre = Mem(nodes, views, ctr)
        /\ born = <<Born(0, b)>>
        /\ steps = 0
        /\ NoCacher

Construct(b, seg) ==
    /\ Len(views) < MaxViews
    /\ \E m1 \in {construct(Cur, b, seg[1], seg[2])} :
       Commit(m1, Call("construct", Len(views) + 1, NoArgs, Val(0, 8), <<>>, ""),
              Append(Track(Cur, m1, 0, {}), Born(0, b)))

Copy(v) ==
    /\ Len(views) < MaxViews
    /\ \E m1 \in {copy(Cur, v)} :
       Commit(m1, Call("copy", v, NoArgs, Val(0, 8), <<>>, ""),
              Append(Track(Cur, m1, 0, {}), Born(v, Content(Cur, v))))

\* v.limit = n
SetLimit(v, n) ==
    \E m1 \in {[Cur EXCEPT !.views[v].limit = n]} :
    Commit(m1, Call("set_limit", v, [limit |-> n], Val(0, 8), <<>>, ""), Track(Cur, m1, 0, {}))

\* v.concretize_addr(dst, strategies)
Concretize(v, dst, strategies) ==
    \E o \in Oracles(dst, views[v].limit) :
        \E r \in {concretize_addr(views[v].limit, dst, strategies, o)} :
        Commit(Cur, Call("concretize_addr", v, [dst |-> dst, strategies |-> strategies, addrs |-> r.addrs],
                         Val(0, 8), <<>>, r.err),
               Track(Cur, Cur, 0, {}))

\* dst in v
Contains(v, dst) ==
    \E o \in Oracles(dst, views[v].limit) :
        \E r \in {contains(Cur, v, dst, o)} :
        Commit(Cur, Call("contains", v, [dst |-> dst], r.ret, <<>>, r.err), Track(Cur, Cur, 0, {}))

Store(v, dst, cnt) ==
    \E o \in Oracles(dst, views[v].limit) :
        \E r \in {store(Cur, v, dst, cnt, o)} :
        LET S == IF r.err = "" THEN r.addr..(r.addr + cnt.size \div 8 - 1) ELSE {}
        IN Commit(r.m, Call("store", v, [dst |-> dst, cnt |-> cnt, addr |-> r.addr], Val(0, 8), r.cons, r.err),
                  Track(Cur, r.m, v, S))

Load(v, dst, size) ==
    \E o \in Oracles(dst, views[v].limit) :
        \E r \in {load(Cur, v, dst, size, o)} :
        Commit(r.m, Call("load", v, [dst |-> dst, size |-> size, addrs |-> r.addrs], r.ret, r.cons, r.err),
               Track(Cur, r.m, v, {}))

Unconstrain(v, other) ==
    \E m1 \in {unconstrain_differences(Cur, v, other)} :
    Commit(m1, Call("unconstrain_differences", v, [other |-> other], Val(0, 8), <<>>, ""),
           Track(Cur, m1, v, changed_bytes(Cur, v, other)))

Merge(v, others, fvs) ==
    \E r \in {merge(Cur, v, others, "flag", fvs)} :
    Commit(r.m, Call("merge", v, [others |-> others, flag_values |-> fvs], Val(0, 8), r.cons, ""),
           Track(Cur, r.m, v, UNION {changed_bytes(Cur, v, others[i]) : i \in 1..Len(others)}))

\* Forking: construct, copy, store and load at integer addresses
Running == steps < MaxSteps

Next ==
    \/ \E b \in {EmptyMap, (0 :> Val(52, 8))}, seg \in Segments : Running /\ Construct(b, seg)
    \/ \E v \in Views : Running /\ Copy(v)
    \/ \E v \in Views, dst \in IntDsts, cnt \in ForkCnts : Running /\ Store(v, dst, cnt)
    \/ \E v \in Views, dst \in IntDsts : Running /\ Load(v, dst, 1)

Spec == Init /\ [][Next]_vars

\* Merging: views are set up by copy and one-byte stores, and a run ends with
\* one merge or unconstrain_differences
Merging == steps < MaxSteps /\ last.op \notin {"merge", "unconstrain_differences"}

NextMerge ==
    \/ \E v \in Views : Merging /\ Copy(v)
    \/ \E v \in Views, dst \in IntDsts, cnt \in ByteCnts : Merging /\ Store(v, dst, cnt)
    \/ \E v \in Views : \E o \in Views \ {v} : Merging /\ Unconstrain(v, o)
    \/ \E v \in Views : \E os \in OthersOf(v), fvs \in FlagLists : Merging /\ Merge(v, os, fvs)

\* v1 = SimMemory(backer); v2 = v1.copy()
InitMerge ==
    \E b \in Backers :
        LET m0 == Mem(<<Node(0, b, FALSE)>>, <<View(1, DefaultLimit, DefaultBits, "mem")>>,
                      [var_mem |-> 0, addr_mem |-> 0, merge_mem |-> 0])
            m1 == copy(m0, 1)
        IN /\ nodes = m1.nodes
           /\ views = m1.views
           /\ ctr = m1.ctr
           /\ last = Call("copy", 1, NoArgs, Val(0, 8), <<>>, "")
           /\ pre = m0
           /\ born = <<Born(0, b), Born(1, b)>>
           /\ steps = 0
           /\ NoCacher

SpecMerge == InitMerge /\ [][NextMerge]_vars

\* Addressing: store and load through every kind of address on one view
Addressing == steps < MaxAddrSteps

AllDsts == IntDsts \cup UniqueDsts \cup AmbiguousDsts

NextAddr ==
    \/ \E dst \in AllDsts, cnt \in Cnts : Addressing /\ Store(1, dst, cnt)
    \/ \E dst \in AllDsts, size \in Sizes : Addressing /\ Load(1, dst, size)

SpecAddr == Init /\ [][NextAddr]_vars

\* Probing: views given a limit of their own, copied, stored to and probed
NextProbe ==
    \/ \E v \in Views, n \in Limits : Addressing /\ SetLimit(v, n)
    \/ \E v \in Views : Addressing /\ Copy(v)
    \/ \E v \in Views, dst \in IntDsts, cnt \in ByteCnts : Addressing /\ Store(v, dst, cnt)
    \/ \E v \in Views, dst \in AmbiguousDsts : Addressing /\ Load(v, dst, 1)
    \/ \E v \in Views, dst \in AmbiguousDsts, ss \in StrategyLists : Addressing /\ Concretize(v, dst, ss)
    \/ \E v \in Views, dst \in AllDsts : Addressing /\ Contains(v, dst)

SpecProbe == Init /\ [][NextProbe]_vars

\* Caching: a script run again and again over one file system
CommitCache(c, fs, g, lg, call) ==
    /\ UNCHANGED <<memvars, config>>
    /\ cacher' = c
    /\ files' = fs
    /\ simgr' = g
    /\ log' = lg
    /\ prior' = [cacher |-> cacher, files |-> files, simgr |-> simgr, log |-> log]
    /\ last' = call
    /\ steps' = steps + 1

\* a new run: simgr.use_technique(Cacher(...)) calls setup(simgr)
Setup(stash0) ==
    LET project == simgr.project + 1
        g0 == [project |-> project, stashes |-> [active |-> SetProject(stash0, project)], stepped |-> 0]
    IN \E r \in {setup(config, files, g0, log)} :
       CommitCache(r.c, files, r.g, r.log, Call("setup", 0, NoArgs, Val(0, 8), <<>>, r.err))

\* the run is on: setup returned and no call has raised since
Installed == last.op \in {"setup", "step"} /\ last.err = ""

\* cacher.step(simgr, 'active')
Step(outcome, next) ==
    /\ Installed
    /\ \E r \in {step(cacher, files, simgr, log, "active", outcome, next)} :
       CommitCache(r.c, r.fs, r.g, r.log,
                   Call("step", 0, [outcome |-> outcome, dumped |-> r.dumped], Val(0, 8), <<>>, ""))

InitCache ==
    /\ nodes = <<Node(0, EmptyMap, FALSE)>>
    /\ views = <<View(1, DefaultLimit, DefaultBits, "mem")>>
    /\ ctr = [var_mem |-> 0, addr_mem |-> 0, merge_mem |-> 0]
    /\ last = Call("init", 1, NoArgs, Val(0, 8), <<>>, "")
    /\ pre = Mem(nodes, views, ctr)
    /\ born = <<Born(0, EmptyMap)>>
    /\ steps = 0
    /\ \E when \in Whens, dump_cache \in BOOLEAN, load_cache \in BOOLEAN, cache_file \in CacheFiles :
          config = Cacher(when, dump_cache, load_cache, cache_file)
    /\ cacher = config
    /\ files \in OldFiles
    /\ simgr = [project |-> 0, stashes |-> [active |-> <<>>], stepped |-> 0]
    /\ log = <<>>
    /\ prior = [cacher |-> cacher, files |-> files, simgr |-> simgr, log |-> log]

NextCache ==
    \/ \E stash0 \in Stashes : Running /\ Setup(stash0)
    \/ \E outcome \in {"ok", "RuntimeError"}, next \in Stashes : Running /\ Step(outcome, next)

SpecCache == InitCache /\ [][NextCache]_vars

\* ----------------------------------------------------------------- claims
\* what a one-byte load through view v at integer address a returns
Load1(m, v, a) == load(m, v, IntAddr(a), 1, NoOracle)

\* the views made by copy()
Copies == {c \in Views : born[c].parent # 0}

\* C1: after v2 = v1.copy(), stores through one of the two views leave what
\* the other view loads at every address it held at the copy unchanged: a view
\* that has not been stored through since still loads its bytes of the copy.
WriteIsolation ==
    \A c \in Copies :
        LET p == born[c].parent
            held == born[c].content0
        IN /\ born[c].sc = {} => \A a \in DOMAIN held : Load1(Cur, c, a).ret = held[a]
           /\ born[c].sp = {} => \A a \in DOMAIN held : Load1(Cur, p, a).ret = held[a]

\* a copy stored through at an address it held, to another byte, its parent
\* not stored through since
WriteIsolationWitness ==
    \E c \in Copies :
        /\ born[c].sp = {}
        /\ \E a \in DOMAIN born[c].content0 \cap born[c].sc :
              /\ Content(Cur, c)[a] # born[c].content0[a]
              /\ Content(Cur, born[c].parent)[a] = born[c].content0[a]

\* v1.load(a, 1) and then v2.load(a, 1) return the same byte expression
LoadsAgree(p, c, a) ==
    LET r1 == Load1(Cur, p, a)
        r2 == Load1(r1.m, c, a)
    IN r1.ret = r2.ret

\* C2 as stated: after v2 = v1.copy(), at every address not stored to through
\* either view since, written before the copy or not, both views load the
\* identical byte expression.
SharingEveryAddress ==
    \A c \in Copies :
        \A a \in Addrs \ (born[c].sc \cup born[c].sp) : LoadsAgree(born[c].parent, c, a)

\* C2 amended: after v2 = v1.copy(), at every address that held a byte at the
\* copy and was not stored to through either view since, both views load the
\* identical byte expression.
SharingHeldAddresses ==
    \A c \in Copies :
        \A a \in DOMAIN born[c].content0 \ (born[c].sc \cup born[c].sp) :
            LoadsAgree(born[c].parent, c, a)

\* a copy and its parent diverged at one address and still share another
SharingWitness ==
    \E c \in Copies :
        /\ born[c].sc \cup born[c].sp # {}
        /\ DOMAIN born[c].content0 \ (born[c].sc \cup born[c].sp) # {}
        /\ Content(Cur, c) # Content(Cur, born[c].parent)

\* C5: for v2 = v1.copy() followed by stores to exactly the addresses S through
\* v2 and nothing through v1, v1.changed_bytes(v2) = S (empty right after the
\* copy).
AncestorDiff ==
    \A c \in Copies :
        (born[c].sp = {} /\ ~born[c].pm /\ ~born[c].cm)
            => changed_bytes(Cur, born[c].parent, c) = born[c].sc

\* a copy stored through at two addresses or more, its parent untouched
AncestorDiffWitness ==
    \E c \in Copies :
        /\ born[c].sp = {} /\ ~born[c].pm /\ ~born[c].cm
        /\ Cardinality(born[c].sc) >= 2

RECURSIVE Origin(_)
\* the constructed view a view descends from by copy()
Origin(v) == IF born[v].parent = 0 THEN v ELSE Origin(born[v].parent)

\* C6: two views with no common ancestor (constructed apart, never branched
\* from each other) report changed_bytes = the union of their full key sets,
\* whether or not they hold equal bytes somewhere.
NoAncestorFallback ==
    \A v \in Views, o \in Views :
        Origin(v) # Origin(o)
            => changed_bytes(Cur, v, o)
                 = DOMAIN Content(Cur, v) \cup DOMAIN Content(Cur, o)

\* two views constructed apart that hold the same byte at one address, and
\* two addresses or more between them
NoAncestorWitness ==
    \E v \in Views, o \in Views :
        /\ Origin(v) # Origin(o)
        /\ Cardinality(DOMAIN Content(Cur, v) \cup DOMAIN Content(Cur, o)) >= 2
        /\ \E a \in DOMAIN Content(Cur, v) \cap DOMAIN Content(Cur, o) :
              Content(Cur, v)[a] = Content(Cur, o)[a]

\* the call made last is a store through an integer or unique-valued address
DirectStore ==
    /\ last.op = "store"
    /\ last.args.dst.int \/ is_unique(last.args.dst)

\* C7: store(A, X) through an integer or unique-valued address returns no
\* constraint, and load(A, n) right after it, n the size of X in bytes,
\* returns X and no constraint.
RoundTrip ==
    DirectStore =>
        /\ last.err = ""
        /\ last.cons = <<>>
        /\ \A o \in Oracles(last.args.dst, views[last.v].limit) :
              LET r == load(Cur, last.v, last.args.dst, last.args.cnt.size \div 8, o)
              IN r.err = "" /\ r.ret = last.args.cnt /\ r.cons = <<>>

\* a two-byte symbol stored through a unique-valued symbolic address
RoundTripWitness ==
    /\ DirectStore
    /\ ~last.args.dst.int /\ last.args.dst.symbolic
    /\ last.args.cnt = InSym("X", 16)

\* the i-th most significant byte of an n-byte value
MSByte(cnt, i) ==
    LET n == cnt.size \div 8 IN
    IF cnt.t = "val" THEN Val((cnt.v \div Pow2(8 * (n - 1 - i))) % 256, 8)
    ELSE IF n = 1 THEN cnt
    ELSE [t |-> "ext", size |-> 8, hi |-> 8 * (n - i) - 1, lo |-> 8 * (n - i - 1), of |-> cnt]

\* C8: storing an n-byte value at concrete address A writes exactly A..A+n-1,
\* A+i holding the i-th most significant byte, which a one-byte load from A+i
\* returns; every other address keeps its byte.
BigEndianLayout ==
    DirectStore =>
        LET dst == last.args.dst
            cnt == last.args.cnt
            A == IF dst.int THEN dst.a ELSE SolMin(dst)
            written == A..(A + cnt.size \div 8 - 1)
            before == Content(pre, last.v)
            after == Content(Cur, last.v)
        IN /\ DOMAIN after = DOMAIN before \cup written
           /\ \A a \in DOMAIN before \ written : after[a] = before[a]
           /\ \A a \in written :
                 /\ after[a] = MSByte(cnt, a - A)
                 /\ Load1(Cur, last.v, a).ret = MSByte(cnt, a - A)

\* 0x1234 stored at A: A loads 0x12 and A+1 loads 0x34
BigEndianWitness ==
    /\ DirectStore
    /\ last.args.dst.int
    /\ last.args.cnt = Val(4660, 16)
    /\ Load1(Cur, last.v, last.args.dst.a).ret = Val(18, 8)
    /\ Load1(Cur, last.v, last.args.dst.a + 1).ret = Val(52, 8)

\* the call made last is a load through a satisfiable address that is not unique
AmbiguousLoad ==
    /\ last.op = "load"
    /\ ~last.args.dst.int
    /\ ~is_unique(last.args.dst)
    /\ last.err = ""

\* C10: a load through a non-unique address whose read resolution gives two
\* candidates or more returns a fresh symbol m of size*8 bits, stored at no
\* address, and the one constraint OR over the candidates c of
\* (m == value_at(c) AND sel == c); with one candidate c it returns value_at(c)
\* and the one constraint sel == c.
AmbiguousRead ==
    AmbiguousLoad =>
        LET C == last.args.addrs
            sel == last.args.dst.nm
            size == last.args.size
            m == last.ret
            value_at(c) == read_from(Cur, last.v, c, size).ret
        IN /\ SeqRange(C) \subseteq last.args.dst.sols
           /\ \A a \in DOMAIN Content(pre, last.v) : Content(Cur, last.v)[a] = Content(pre, last.v)[a]
           /\ IF Len(C) >= 2
              THEN /\ m = Sym("addr", views[last.v].id, 0, pre.ctr.addr_mem, size * 8)
                   /\ ctr.addr_mem = pre.ctr.addr_mem + 1
                   /\ \A x \in Views : \A a \in DOMAIN Content(Cur, x) : Content(Cur, x)[a] # m
                   /\ last.cons = <<Or([i \in 1..Len(C) |->
                                         And(<<Eq(m, value_at(C[i])), Eq(sel, C[i])>>)])>>
              ELSE /\ Len(C) = 1
                   /\ m = value_at(C[1])
                   /\ last.cons = <<Eq(sel, C[1])>>

\* sel satisfiable at exactly {A, B}, X stored at A and Y at B, one byte loaded
AmbiguousReadWitness ==
    /\ AmbiguousLoad
    /\ Len(last.args.addrs) = 2
    /\ last.args.size = 1
    /\ SeqRange(last.args.addrs) = last.args.dst.sols
    /\ SeqRange(last.args.addrs) \subseteq DOMAIN Content(pre, last.v)
    /\ Content(pre, last.v)[last.args.addrs[1]] # Content(pre, last.v)[last.args.addrs[2]]

\* the call made last is a merge; the states merged, self first
Merged == last.op = "merge"

MergeStates == <<last.v>> \o last.args.others

\* the addresses that differed before the merge
MergeChanged ==
    UNION {changed_bytes(pre, last.v, last.args.others[i]) : i \in 1..Len(last.args.others)}

PairwiseDistinct(fvs) == \A i \in 1..Len(fvs), j \in 1..Len(fvs) : i # j => fvs[i] # fvs[j]

\* the returned constraints that speak of byte b
About(b) ==
    {k \in 1..Len(last.cons) : \E d \in SeqRange(last.cons[k].args) : d.args[2].l = b}

\* the disjuncts of a merge constraint that flag == f leaves satisfiable
Open(con, f) == {d \in SeqRange(con.args) : d.args[1] = Eq("flag", f)}

\* under the returned constraints, adding flag == f leaves byte b equal to x
\* and to nothing else
Forces(f, b, x) ==
    /\ Cardinality(About(b)) = 1
    /\ \A k \in About(b) :
          /\ last.cons[k].t = "or"
          /\ Open(last.cons[k], f) # {}
          /\ \A d \in Open(last.cons[k], f) : d.args[2] = Eq(b, x)

\* C3: after self.merge(others, flag, flag_values) with pairwise distinct
\* flag_values, one per state, for every differing address A and every state
\* i, adding flag == flag_values[i] to the returned constraints forces the
\* byte now at A in self to equal the byte state i held at A before the merge
\* (a state that held none there gives the symbol its load materialized).
PreciseMergeSelects ==
    (Merged /\ Len(last.args.flag_values) = Len(MergeStates)
            /\ PairwiseDistinct(last.args.flag_values)) =>
        /\ Len(last.cons) = Cardinality(MergeChanged)
        /\ \A A \in MergeChanged : \A i \in 1..Len(MergeStates) :
              LET s == MergeStates[i]
                  now == Content(Cur, last.v)[A]
                  held == Content(pre, s)
              IN IF A \in DOMAIN held
                 THEN Forces(last.args.flag_values[i], now, held[A])
                 ELSE \E n \in pre.ctr.var_mem..ctr.var_mem :
                         Forces(last.args.flag_values[i], now, Sym("mem", views[s].id, A, n, 8))

\* a three-way merge at an address where self and one other held different bytes
PreciseMergeWitness ==
    /\ Merged
    /\ Len(MergeStates) = 3
    /\ Len(last.args.flag_values) = 3
    /\ PairwiseDistinct(last.args.flag_values)
    /\ \E A \in MergeChanged :
          /\ \A i \in 1..3 : A \in DOMAIN Content(pre, MergeStates[i])
          /\ Content(pre, MergeStates[1])[A] # Content(pre, MergeStates[2])[A]

\* C4: merge with a flag_values list whose length is not len(others) + 1
\* fails with MergeArityMismatch, returns no constraint and leaves self's
\* store as it was.
MergeArityChecked ==
    (Merged /\ Len(last.args.flag_values) # Len(MergeStates)) =>
        /\ last.err = "MergeArityMismatch"
        /\ last.cons = <<>>
        /\ Content(Cur, last.v) = Content(pre, last.v)

\* the call made last is unconstrain_differences
Unconstrained == last.op = "unconstrain_differences"

\* C9: after self.unconstrain_differences(other), every address of
\* changed_bytes(self, other) as it was before the call holds in self a
\* brand-new symbolic byte (a name never handed out before, so in no
\* constraint) found at no other address of any view, every other address of
\* self keeps its byte, and no constraint is returned.
ApproximateMergeWidens ==
    Unconstrained =>
        LET D == changed_bytes(pre, last.v, last.args.other)
            before == Content(pre, last.v)
            after == Content(Cur, last.v)
            BrandNew(b) ==
                /\ b.t = "sym" /\ b.size = 8 /\ b.k = "unconstrain"
                /\ b.n >= pre.ctr.addr_mem /\ b.n < ctr.addr_mem
                /\ \A x \in DOMAIN pre.views : \A a \in DOMAIN Content(pre, x) : Content(pre, x)[a] # b
        IN /\ last.cons = <<>>
           /\ DOMAIN after = DOMAIN before \cup D
           /\ \A a \in DOMAIN before \ D : after[a] = before[a]
           /\ \A a \in D :
                 /\ BrandNew(after[a])
                 /\ \A x \in Views : \A a2 \in DOMAIN Content(Cur, x) :
                       (x # last.v \/ a2 # a) => Content(Cur, x)[a2] # after[a]

\* two differing addresses or more were unconstrained, one of them changed
\* through the other view only
ApproximateMergeWitness ==
    /\ Unconstrained
    /\ Cardinality(changed_bytes(pre, last.v, last.args.other)) >= 2
    /\ born[last.args.other].sc # {} \/ born[last.v].sp # {}

\* C11: the view returned by v.copy() has the same bits, the same id and the
\* same limit as v, also when v.limit was changed from the default.
CopyPreservesConfiguration ==
    last.op = "copy" =>
        /\ views[Len(views)].bits = views[last.v].bits
        /\ views[Len(views)].id = views[last.v].id
        /\ views[Len(views)].limit = views[last.v].limit

\* C12: store(dst, cnt) through a satisfiable, non-unique dst writes the bytes
\* of cnt at c..c+n-1 for one satisfying value c of dst, leaves every other
\* address as it was and returns the one constraint dst == c; through an
\* integer or unique-valued dst it returns no constraint.
AmbiguousStore ==
    last.op = "store" =>
        LET dst == last.args.dst
            cnt == last.args.cnt
            n == cnt.size \div 8
            before == Content(pre, last.v)
            after == Content(Cur, last.v)
        IN IF dst.int \/ is_unique(dst) THEN last.err = "" /\ last.cons = <<>>
           ELSE satisfiable(dst) =>
                /\ last.err = ""
                /\ \E c \in dst.sols :
                      /\ last.cons = <<Eq(dst.nm, c)>>
                      /\ DOMAIN after = DOMAIN before \cup c..(c + n - 1)
                      /\ \A i \in 0..(n - 1) :
                            after[c + i] = Extract(cnt.size - 8 * i - 1, cnt.size - 8 * i - 8, cnt)
                      /\ \A a \in DOMAIN before \ c..(c + n - 1) : after[a] = before[a]

\* a two-byte store through an ambiguous dst that the solver resolved to a
\* value other than its least one, over an address that held a byte
AmbiguousStoreWitness ==
    /\ last.op = "store"
    /\ ~last.args.dst.int
    /\ Cardinality(last.args.dst.sols) > 1
    /\ last.args.cnt.size = 16
    /\ last.err = ""
    /\ last.args.addr # SolMin(last.args.dst)
    /\ DOMAIN Content(pre, last.v) \ {last.args.addr, last.args.addr + 1} # {}

\* the addresses of view v the call made last stored to
StoredTo(v) ==
    IF last.op = "store" /\ last.v = v /\ last.err = ""
    THEN last.args.addr..(last.args.addr + last.args.cnt.size \div 8 - 1)
    ELSE {}

\* C13: load of a never-written integer address does not fail: it returns a
\* fresh symbolic byte and no constraint and records the byte in the view;
\* a load of an address the view holds returns the byte held and changes
\* nothing, and only a store to the address replaces the byte held.
AllMemoryReadable ==
    /\ (last.op = "load" /\ last.args.dst.int /\ last.args.dst.a \notin DOMAIN Content(pre, last.v)) =>
          /\ last.err = "" /\ last.cons = <<>>
          /\ last.ret.t = "sym" /\ last.ret.size = 8 /\ last.ret.k = "mem"
          /\ last.ret.n >= pre.ctr.var_mem
          /\ \A x \in DOMAIN pre.views : \A a \in DOMAIN Content(pre, x) : Content(pre, x)[a] # last.ret
          /\ last.args.dst.a \in DOMAIN Content(Cur, last.v)
          /\ Content(Cur, last.v)[last.args.dst.a] = last.ret
    /\ \A v \in Views : \A a \in DOMAIN Content(Cur, v) :
          /\ Load1(Cur, v, a).ret = Content(Cur, v)[a]
          /\ Load1(Cur, v, a).err = "" /\ Load1(Cur, v, a).cons = <<>>
          /\ Load1(Cur, v, a).m = Cur
    /\ \A v \in DOMAIN pre.views : \A a \in DOMAIN Content(pre, v) \ StoredTo(v) :
          /\ a \in DOMAIN Content(Cur, v)
          /\ Content(Cur, v)[a] = Content(pre, v)[a]

\* a byte materialized by a load is loaded again
AllMemoryReadableWitness ==
    /\ last.op = "load"
    /\ last.args.dst.a \in DOMAIN Content(pre, last.v)
    /\ last.ret.t = "sym" /\ last.ret.k = "mem"
    /\ last.ret = Content(pre, last.v)[last.args.dst.a]
    /\ last.args.dst.a \notin DOMAIN born[last.v].content0

\* the two messages SimMemoryError is raised with
UnsatAddress == "Trying to concretize with unsat constraints."

ConcretizationFailure == "Unable to concretize address with the provided strategies."

\* C14: load or store through a symbolic address expression that is
\* unsatisfiable raises the error of an unsatisfiable address, which is not
\* the error of a failed concretization, returns no constraint and leaves
\* the store and the counters as they were.
UnsatAddressFails ==
    (/\ last.op \in {"load", "store"}
     /\ ~last.args.dst.int
     /\ is_symbolic(last.args.dst)
     /\ ~satisfiable(last.args.dst)) =>
        /\ last.err = UnsatAddress
        /\ last.err # ConcretizationFailure
        /\ last.cons = <<>>
        /\ Cur = pre

\* a store through an unsatisfiable address on a view that holds bytes
UnsatAddressWitness ==
    /\ last.op = "store"
    /\ ~last.args.dst.int
    /\ last.args.dst.sols = {}
    /\ last.err # ""
    /\ DOMAIN Content(pre, last.v) # {}

\* the strategies that are stubs
Stubs == {"free", "writeable", "executable", "allocated"}

NotStub(s) == s \notin Stubs

\* the strategy list of the resolution made last: a load resolves as a read
Resolving == IF last.op = "load" THEN <<"symbolic", "any">> ELSE last.args.strategies

\* C15: for a satisfiable, non-unique address the strategies are tried in
\* order and the stubs yield nothing: with "symbolic" first among the others
\* and max - min below limit the result is every satisfying value, at most
\* limit of them; otherwise, with "any" in the list, it is one satisfying
\* value; otherwise the call fails with the error of a failed concretization.
ReadResolutionOrder ==
    (/\ last.op \in {"load", "concretize_addr"}
     /\ ~last.args.dst.int
     /\ Cardinality(last.args.dst.sols) > 1) =>
        LET dst == last.args.dst
            limit == pre.views[last.v].limit
            eff == SelectSeq(Resolving, NotStub)
            addrs == last.args.addrs
        IN IF eff # <<>> /\ Head(eff) = "symbolic" /\ SolMax(dst) - SolMin(dst) < limit
           THEN /\ last.err = ""
                /\ Len(addrs) <= limit
                /\ Len(addrs) = Cardinality(dst.sols)
                /\ SeqRange(addrs) = dst.sols
           ELSE IF "any" \in SeqRange(eff)
           THEN /\ last.err = ""
                /\ Len(addrs) = 1
                /\ addrs[1] \in dst.sols
           ELSE /\ last.err = ConcretizationFailure
                /\ addrs = <<>>

\* a read resolution that a limit of the view's own turned from the
\* enumeration to one value other than the least
ReadResolutionWitness ==
    /\ last.op = "concretize_addr"
    /\ last.args.strategies = <<"symbolic", "any">>
    /\ last.args.dst.sols = {0, 1}
    /\ pre.views[last.v].limit = 1
    /\ last.args.addrs = <<1>>

\* C16: dst in v raises nothing and leaves the store as it was; it is true
\* exactly when dst is an integer or a unique-valued expression whose address
\* has an entry, and false for any other expression.
ContainsProbes ==
    last.op = "contains" =>
        LET dst == last.args.dst
            held == DOMAIN Content(pre, last.v)
        IN /\ last.err = ""
           /\ Cur = pre
           /\ last.ret = IF dst.int THEN dst.a \in held
                         ELSE IF is_unique(dst) THEN dst.sols \subseteq held
                         ELSE FALSE

\* a probe with an expression whose every value has an entry, yet not unique
ContainsWitness ==
    /\ last.op = "contains"
    /\ ~last.args.dst.int
    /\ Cardinality(last.args.dst.sols) > 1
    /\ last.args.dst.sols \subseteq DOMAIN Content(pre, last.v)
    /\ last.ret = FALSE

\* the views handed to the call made last as other or others
OtherViews ==
    IF last.op = "merge" THEN SeqRange(last.args.others)
    ELSE IF last.op = "unconstrain_differences" THEN {last.args.other}
    ELSE {}

\* C17 as stated: merge and unconstrain_differences leave the store of every
\* other view exactly as it was, key set and bytes.
MergeMutatesOnlySelf ==
    \A o \in OtherViews : Content(Cur, o) = Content(pre, o)

\* C17: merge replaces or removes no byte an other view held, and what it
\* adds to an other view is only the fresh symbolic byte that reading a
\* differing address the view never held records there; a view that is
\* neither self nor among the others is left as it was, and
\* unconstrain_differences leaves every view but self as it was.
MergeKeepsOthersBytes ==
    /\ Unconstrained => \A x \in DOMAIN pre.views \ {last.v} : Content(Cur, x) = Content(pre, x)
    /\ Merged =>
          /\ \A x \in DOMAIN pre.views \ (OtherViews \cup {last.v}) : Content(Cur, x) = Content(pre, x)
          /\ \A o \in OtherViews \ {last.v} :
                LET before == Content(pre, o)
                    after == Content(Cur, o)
                IN /\ DOMAIN after = DOMAIN before \cup MergeChanged
                   /\ \A a \in DOMAIN before : after[a] = before[a]
                   /\ \A a \in DOMAIN after \ DOMAIN before :
                         /\ after[a].t = "sym" /\ after[a].k = "mem" /\ after[a].a = a
                         /\ after[a].n >= pre.ctr.var_mem

\* a merge at an address one of the others never held, on which that view
\* holds a byte afterwards
MergeKeepsOthersWitness ==
    /\ Merged
    /\ \E o \in OtherViews : DOMAIN Content(Cur, o) \ DOMAIN Content(pre, o) # {}
    /\ \E o \in OtherViews : DOMAIN Content(pre, o) # {}

\* the call made last is a step of the Cacher
Stepped == last.op = "step"

\* the states of the stash before the step that satisfy the dump condition
DumpStates ==
    {i \in 1..Len(prior.simgr.stashes.active) : dump_cond(prior.cacher, prior.simgr.stashes.active[i])}

\* the files the step created
NewFiles == DOMAIN files \ DOMAIN prior.files

\* the pickling of the step made last failed
DumpFailed == Stepped /\ Len(log) > Len(prior.log) /\ log[Len(log)] = "Unable to cache"

\* C18: a step leaves every file that existed before it as it was, so a
\* state that satisfies the dump condition while the file of the current key
\* exists is not dumped; a file is written only with dump_cache on, a state
\* satisfying the condition and no file of that name there before; and the
\* manager is stepped in every case.
CacheNeverOverwritten ==
    Stepped =>
        /\ \A path \in DOMAIN prior.files : path \in DOMAIN files /\ files[path] = prior.files[path]
        /\ NewFiles # {} =>
              /\ prior.cacher.dump_cache
              /\ DumpStates # {}
              /\ NewFiles = {cacher.cache_file}
        /\ (~prior.cacher.dump_cache \/ DumpStates = {}) => files = prior.files
        /\ simgr.stepped = prior.simgr.stepped + 1

\* a state satisfies the dump condition while the file of its key exists
CacheNeverOverwrittenWitness ==
    /\ Stepped
    /\ prior.cacher.dump_cache
    /\ DumpStates # {}
    /\ cacher.cache_file \in DOMAIN prior.files
    /\ prior.files[cacher.cache_file].complete

FailedDumpLeavesNoEntry ==
    DumpFailed => cacher.cache_file \notin DOMAIN files

====
